---- MODULE Spec2Model ----
(***************************************************************************)
(* The reading-session engine of gulp: the playback state machine of       *)
(* routes/+page.svelte with its timers (advance, countdown, paste,         *)
(* debounced save), the tokenizer and the session store.                   *)
(*                                                                         *)
(* Strings are sequences of one-character strings.  Word indexes are the   *)
(* 0-based indexes of the code; tokens[i] of the code is tokens[i + 1]     *)
(* here.  Delays are exact rationals num/den in milliseconds.              *)
(***************************************************************************)
EXTENDS Integers, Sequences, FiniteSets, TLC

\* ------------------------------------------------------------------ bounds
\* submissions in progress at once: pending paste timers, requests in flight
\* and running countdowns together
MaxPending == 2
\* the wpm values explored lie up to MaxWpmSteps steps of 25 above the default 450
MaxWpmSteps == 1
\* user actions in one run
MaxActions == 4
\* user actions within the 50 ms a paste timer is pending
MaxHaste == 1

\* ------------------------------------------------------------------ strings
\* the characters JavaScript's \s and String.prototype.trim treat as blank
Whitespace == {" ", "\t", "\n", "\r", "\f"}

\* a value that is not a string (data.text of a response that has no text)
Undefined == <<"undefined">>

IsString(text) == text # Undefined

\* !text of JavaScript: the empty string and undefined are falsy
Falsy(text) == text = <<>> \/ ~IsString(text)

RECURSIVE TrimStart(_)
TrimStart(s) ==
    IF s = <<>> THEN <<>>
    ELSE IF Head(s) \in Whitespace THEN TrimStart(Tail(s))
    ELSE s

RECURSIVE TrimEnd(_)
TrimEnd(s) ==
    IF s = <<>> THEN <<>>
    ELSE IF s[Len(s)] \in Whitespace THEN TrimEnd(SubSeq(s, 1, Len(s) - 1))
    ELSE s

\* String.prototype.trim
Trim(s) == TrimEnd(TrimStart(s))

RECURSIVE DropWhile(_, _)
DropWhile(s, set) ==
    IF s = <<>> THEN <<>>
    ELSE IF Head(s) \in set THEN DropWhile(Tail(s), set)
    ELSE s

\* text.replace(/[set]+/g, ' '): every maximal run of characters of set
\* becomes one space
RECURSIVE ReplaceRuns(_, _)
ReplaceRuns(s, set) ==
    IF s = <<>> THEN <<>>
    ELSE IF Head(s) \in set
         THEN <<" ">> \o ReplaceRuns(DropWhile(Tail(s), set), set)
         ELSE <<Head(s)>> \o ReplaceRuns(Tail(s), set)

\* the characters of s before the first sep (all of s when it has none)
RECURSIVE UpTo(_, _)
UpTo(s, sep) ==
    IF s = <<>> \/ Head(s) = sep THEN <<>>
    ELSE <<Head(s)>> \o UpTo(Tail(s), sep)

\* String.prototype.split(sep) for a one-character separator
RECURSIVE Split(_, _)
Split(s, sep) ==
    LET first == UpTo(s, sep)
    IN  IF Len(first) = Len(s) THEN <<first>>
        ELSE <<first>> \o Split(SubSeq(s, Len(first) + 2, Len(s)), sep)

\* a tokenizer that splits at spaces only: what C20 rests on
tokenize_SpacesOnly(text) ==
    IF Falsy(text) THEN <<>>
    ELSE SelectSeq(Split(Trim(text), " "), LAMBDA token : Len(token) > 0)

tokenize(text) ==
    IF Falsy(text) THEN <<>>
    ELSE LET normalized ==
                 Trim(ReplaceRuns(ReplaceRuns(text, {"\r", "\n", "\t"}), Whitespace))
         IN  IF normalized = <<>> THEN <<>>
             ELSE SelectSeq(Split(normalized, " "), LAMBDA token : Len(token) > 0)

\* ------------------------------------------------------------------ delays
\* a delay of num/den milliseconds
Ms(n) == [num |-> n, den |-> 1]

DelayLT(a, b) == a.num * b.den < b.num * a.den

DelayEq(a, b) == a.num * b.den = b.num * a.den

\* d * (tenths / 10)
Scale(d, tenths) == [num |-> (d.num * tenths) \div 10, den |-> d.den]

msPerWord(w) == [num |-> 60000, den |-> w]

\* /[chars]$/.test(word)
EndsWith(word, chars) == word # <<>> /\ IsString(word) /\ word[Len(word)] \in chars

\* /[chars]/.test(word): the test without its $
Contains(word, chars) == IsString(word) /\ \E i \in 1..Len(word) : word[i] \in chars

\* getWordDelay testing every character of the word: what C6 rests on
getWordDelay_AnyCharacter(word, w) ==
    LET baseDelay == msPerWord(w)
    IN  IF Contains(word, {".", "!", "?"}) THEN Scale(baseDelay, 15)
        ELSE IF Contains(word, {",", ";", ":"}) THEN Scale(baseDelay, 12)
        ELSE baseDelay

getWordDelay(word, w) ==
    LET baseDelay == msPerWord(w)
    IN  IF EndsWith(word, {".", "!", "?"}) THEN Scale(baseDelay, 15)
        ELSE IF EndsWith(word, {",", ";", ":"}) THEN Scale(baseDelay, 12)
        ELSE baseDelay

\* ------------------------------------------------------------------ storage
\* JSON values: a number, a string, or anything else (absent, null, object)
Num(n) == [t |-> "number", v |-> n]

Text(x) == [t |-> "string", v |-> x]

Other == [t |-> "other"]

\* localStorage.getItem(STORAGE_KEY): null, text JSON.parse rejects, or an object
NoItem == [kind |-> "null"]

Corrupt == [kind |-> "corrupt"]

Item(url, sourceText, w, wordIndex) ==
    [kind |-> "object", url |-> url, sourceText |-> sourceText,
     wpm |-> w, wordIndex |-> wordIndex]

DEFAULT_STATE == [url |-> <<>>, sourceText |-> <<>>, wpm |-> 450, wordIndex |-> 0]

\* a load that gives up on the whole record when one field is invalid: what
\* C18 rests on
loadState_AllOrNothing(stored) ==
    IF /\ stored.kind = "object"
       /\ stored.url.t = "string"
       /\ stored.sourceText.t = "string"
       /\ stored.wpm.t = "number" /\ stored.wpm.v > 0
       /\ stored.wordIndex.t = "number" /\ stored.wordIndex.v >= 0
    THEN [url |-> stored.url.v, sourceText |-> stored.sourceText.v,
          wpm |-> stored.wpm.v, wordIndex |-> stored.wordIndex.v]
    ELSE DEFAULT_STATE

loadState(stored) ==
    IF stored.kind # "object" THEN DEFAULT_STATE
    ELSE [url |-> IF stored.url.t = "string" THEN stored.url.v ELSE DEFAULT_STATE.url,
          sourceText |-> IF stored.sourceText.t = "string" THEN stored.sourceText.v
                         ELSE DEFAULT_STATE.sourceText,
          wpm |-> IF stored.wpm.t = "number" /\ stored.wpm.v > 0 THEN stored.wpm.v
                  ELSE DEFAULT_STATE.wpm,
          wordIndex |-> IF stored.wordIndex.t = "number" /\ stored.wordIndex.v >= 0
                        THEN stored.wordIndex.v
                        ELSE DEFAULT_STATE.wordIndex]

\* JSON.stringify of the record persistState builds: an undefined field is left out
Stringify(state) ==
    Item(Text(state.url),
         IF IsString(state.sourceText) THEN Text(state.sourceText) ELSE Other,
         Num(state.wpm), Num(state.wordIndex))

\* ------------------------------------------------------------------ timers
\* A pending setTimeout callback: its kind, its delay, whether the handle its
\* owner keeps (timerId of the page, timeoutId of the debounced save) still
\* refers to it, and what its callback closes over.
Timer(kind, delay, held, arg) ==
    [kind |-> kind, delay |-> delay, held |-> held, arg |-> arg]

\* handle = setTimeout(...): the handle no longer refers to an earlier timer
Arm(timers, kind, delay, held, arg) ==
    Append([i \in 1..Len(timers) |->
               IF held /\ timers[i].kind = kind
               THEN [timers[i] EXCEPT !.held = FALSE] ELSE timers[i]],
           Timer(kind, delay, held, arg))

\* if (handle) clearTimeout(handle)
Clear(timers, kind) == SelectSeq(timers, LAMBDA t : ~(t.kind = kind /\ t.held))

Remove(timers, i) == SubSeq(timers, 1, i - 1) \o SubSeq(timers, i + 1, Len(timers))

Count(timers, kind) == Cardinality({i \in 1..Len(timers) : timers[i].kind = kind})

\* Timers run in the order of their expiry, and a timer armed later with a delay
\* that is not shorter expires later: timer i can be the next to run only if
\* every timer armed before it has a strictly longer delay.
CanFire(timers, i) ==
    \A j \in 1..(i - 1) : DelayLT(timers[i].delay, timers[j].delay)
\* ------------------------------------------------------------------ state
VARIABLES
    appState,        \* 'input' | 'loading' | 'countdown' | 'playing' | 'paused' | 'finished'
    inputValue,      \* the text of the textarea
    sourceText,
    tokens,
    wordIndex,
    wpm,
    errorMessage,    \* "" when no error is shown
    hasSavedSession, \* the resume button is offered
    countdownValue,  \* 3, 2, 1, or 0 for null
    timers,          \* the pending setTimeout callbacks, in the order they were armed
    inflight,        \* requests to /api/extract and /api/summarize awaiting their response
    storage,         \* the localStorage item under STORAGE_KEY
    acted,           \* environment: the user actions so far
    haste,           \* environment: the user actions since a paste timer has been pending
    since,           \* history: "pause" (in Playing) or "back" (in Countdown, Playing,
                     \* Paused, Finished) when that was the last user action and no
                     \* response has arrived since, else "other"
    call,            \* a function of the page applied on its own: its name, its
                     \* arguments, and whether it has returned
    result,          \* what it returned
    destroyed,       \* onDestroy has run: the component is gone
    ticks,           \* environment: "off", or the parity ("even", "odd") of the timer
                     \* callbacks and responses so far when progress is observed
    rateLimitStore,  \* server: the entry (count, resetTime) of each key ip:class
    now              \* server: Date.now()

page == <<appState, inputValue, sourceText, tokens, wordIndex, wpm, errorMessage,
          hasSavedSession, countdownValue, timers, inflight, storage>>

server == <<rateLimitStore, now>>

vars == <<page, acted, haste, since, call, result, destroyed, ticks, server>>

\* the addresses getClientIP can return for the requests of the model
Unknown == <<"unknown">>

ClientIPs == {<<"7">>, Unknown}

RateKeys == ClientIPs \X {"api", "general"}

\* rateLimitStore.get(key) of a key that has no entry
NoEntry == [count |-> 0, resetTime |-> 0 - 1]

\* new Map()
EmptyStore == [key \in RateKeys |-> NoEntry]

\* the page's state as one record, so that a handler is a function from the state
\* before it runs to the state after it has run
Cur ==
    [appState |-> appState, inputValue |-> inputValue, sourceText |-> sourceText,
     tokens |-> tokens, wordIndex |-> wordIndex, wpm |-> wpm,
     errorMessage |-> errorMessage, hasSavedSession |-> hasSavedSession,
     countdownValue |-> countdownValue, timers |-> timers, inflight |-> inflight,
     storage |-> storage]

Is(s) ==
    /\ appState = s.appState
    /\ inputValue = s.inputValue
    /\ sourceText = s.sourceText
    /\ tokens = s.tokens
    /\ wordIndex = s.wordIndex
    /\ wpm = s.wpm
    /\ errorMessage = s.errorMessage
    /\ hasSavedSession = s.hasSavedSession
    /\ countdownValue = s.countdownValue
    /\ timers = s.timers
    /\ inflight = s.inflight
    /\ storage = s.storage

Becomes(s) ==
    /\ appState' = s.appState
    /\ inputValue' = s.inputValue
    /\ sourceText' = s.sourceText
    /\ tokens' = s.tokens
    /\ wordIndex' = s.wordIndex
    /\ wpm' = s.wpm
    /\ errorMessage' = s.errorMessage
    /\ hasSavedSession' = s.hasSavedSession
    /\ countdownValue' = s.countdownValue
    /\ timers' = s.timers
    /\ inflight' = s.inflight
    /\ storage' = s.storage

\* ------------------------------------------------------------------ persistence
\* a debounced save that leaves the earlier timer pending: what C16 rests on
debouncedSave_NoClear(s, state) ==
    [s EXCEPT !.timers = Arm(@, "save", Ms(500), TRUE, state)]

debouncedSave(s, state) ==
    [s EXCEPT !.timers = Arm(Clear(@, "save"), "save", Ms(500), TRUE, state)]

persistState(s) ==
    debouncedSave(s, [url |-> <<>>, sourceText |-> s.sourceText, wpm |-> s.wpm,
                      wordIndex |-> s.wordIndex])

\* localStorage.setItem may throw (quota, storage unavailable): the write is lost
\* a save whose failed write stops the playback: what C19 rests on
saveState_Halts(s, state, ok) ==
    IF ok THEN [s EXCEPT !.storage = Stringify(state)]
    ELSE [s EXCEPT !.timers = Clear(@, "advance"), !.appState = "paused"]

saveState(s, state, ok) ==
    IF ok THEN [s EXCEPT !.storage = Stringify(state)] ELSE s

\* ------------------------------------------------------------------ scheduler
\* tokens[i] of the code: undefined outside the array
At(toks, i) == IF 0 <= i /\ i < Len(toks) THEN toks[i + 1] ELSE Undefined

\* scheduleNextWord arming an advance on the last token too: what C5 rests on
scheduleNextWord_PastEnd(s) ==
    IF s.wordIndex < Len(s.tokens)
    THEN [s EXCEPT !.timers =
              Arm(@, "advance", getWordDelay(At(s.tokens, s.wordIndex), s.wpm), TRUE, 0)]
    ELSE [s EXCEPT !.appState = "finished"]

scheduleNextWord(s) ==
    IF s.wordIndex < Len(s.tokens) - 1
    THEN [s EXCEPT !.timers =
              Arm(@, "advance", getWordDelay(At(s.tokens, s.wordIndex), s.wpm), TRUE, 0)]
    ELSE [s EXCEPT !.appState = "finished"]

\* the callback scheduleNextWord arms
advance(s) ==
    LET s1 == persistState([s EXCEPT !.wordIndex = @ + 1])
    IN  IF s1.appState = "playing" THEN scheduleNextWord(s1) ELSE s1

stopTimer(s) == [s EXCEPT !.timers = Clear(@, "advance")]

\* startTimer without its stopTimer(): what C4 rests on
startTimer_NoStop(s) ==
    IF Len(s.tokens) = 0 THEN s ELSE scheduleNextWord(s)

startTimer(s) ==
    LET s1 == stopTimer(s)
    IN  IF Len(s1.tokens) = 0 THEN s1 ELSE scheduleNextWord(s1)

\* startCountdown up to its first await
startCountdown(s) ==
    [s EXCEPT !.appState = "countdown",
              !.countdownValue = 3,
              !.timers = Arm(@, "countdown", Ms(500), FALSE, 3)]

\* startCountdown resumed by the timer it awaited while showing i
countdownTick(s, i) ==
    IF i - 1 >= 1
    THEN [s EXCEPT !.countdownValue = i - 1,
                   !.timers = Arm(@, "countdown", Ms(500), FALSE, i - 1)]
    ELSE startTimer([s EXCEPT !.countdownValue = 0, !.appState = "playing"])
\* ------------------------------------------------------------------ acquisition
HasPrefix(s, p) == Len(s) >= Len(p) /\ SubSeq(s, 1, Len(p)) = p

\* new URL(str.trim()) succeeds with protocol http: or https:.  The inputs of
\* the model spell a URL as scheme, "//" and a host without blanks.
isUrl(str) ==
    LET t == Trim(str)
    IN  /\ \E p \in {<<"h", "t", "t", "p", ":", "/", "/">>,
                     <<"h", "t", "t", "p", "s", ":", "/", "/">>} :
               HasPrefix(t, p) /\ Len(t) > Len(p)
        /\ \A i \in 1..Len(t) : t[i] \notin Whitespace

\* a catch block that leaves appState alone: what C8 rests on
catch_Parked(s, message) == [s EXCEPT !.errorMessage = message]

\* the catch block of processInput and of handleDrop; message is err.message
catch(s, message) == [s EXCEPT !.errorMessage = message, !.appState = "input"]

\* processInput and handleDrop once the text is in hand
accept(s, text) ==
    LET s1 == [s EXCEPT !.sourceText = text, !.tokens = tokenize(text), !.wordIndex = 0]
    IN  IF Len(s1.tokens) = 0 THEN catch(s1, "No readable content found")
        ELSE startCountdown(persistState(s1))

Fallback(api) ==
    IF api = "extract" THEN "Failed to extract content" ELSE "Failed to summarize content"

\* processInput and handleDrop resumed by the response of the api they awaited:
\* r.ok with r.text the text of the body, or not ok with the body's message
respond(s, api, r) ==
    IF ~r.ok THEN catch(s, IF r.message # "" THEN r.message ELSE Fallback(api))
    ELSE accept(s, r.text)

request(s, api) == [s EXCEPT !.inflight[api] = @ + 1]

\* processInput without its test of the trimmed value: what C9 rests on
processInput_NoGuard(s) ==
    LET value == Trim(s.inputValue)
        s1 == [s EXCEPT !.errorMessage = "", !.appState = "loading"]
    IN  IF isUrl(value) THEN request(s1, "extract") ELSE accept(s1, value)

processInput(s) ==
    LET value == Trim(s.inputValue)
    IN  IF value = <<>> THEN s
        ELSE LET s1 == [s EXCEPT !.errorMessage = "", !.appState = "loading"]
             IN  IF isUrl(value) THEN request(s1, "extract") ELSE accept(s1, value)

\* the callback handlePaste arms
pasted(s) == IF Trim(s.inputValue) # <<>> THEN processInput(s) ELSE s

\* supported tells whether the type or the name of the dropped file is accepted
handleDrop(s, supported) ==
    IF s.appState # "input" THEN s
    ELSE IF ~supported
         THEN [s EXCEPT !.errorMessage =
                   "Unsupported format. Try PDF, DOCX, TXT, MD, HTML, images, or CSV."]
         ELSE request([s EXCEPT !.errorMessage = "", !.appState = "loading"], "summarize")

\* ------------------------------------------------------------------ controls
togglePlay(s) ==
    IF s.appState = "playing" THEN stopTimer([s EXCEPT !.appState = "paused"])
    ELSE IF s.appState \in {"paused", "finished"}
         THEN startTimer([s EXCEPT
                  !.wordIndex = IF @ >= Len(s.tokens) - 1 THEN 0 ELSE @,
                  !.appState = "playing"])
         ELSE s

restart(s) ==
    LET s1 == persistState([s EXCEPT !.wordIndex = 0])
    IN  IF s1.appState = "playing" THEN startTimer(s1)
        ELSE IF s1.appState = "finished" THEN startTimer([s1 EXCEPT !.appState = "playing"])
        ELSE s1

\* the timer goBack arms only moves the focus to the textarea
goBack(s) ==
    [stopTimer(s) EXCEPT !.sourceText = <<>>, !.tokens = <<>>, !.wordIndex = 0,
                         !.inputValue = <<>>, !.appState = "input"]

handleWpmChange(s) ==
    LET s1 == persistState(s)
    IN  IF s1.appState = "playing" THEN startTimer(s1) ELSE s1

Min(a, b) == IF a < b THEN a ELSE b

Max(a, b) == IF a > b THEN a ELSE b

Keys == {" ", "ArrowLeft", "ArrowRight", "ArrowUp", "ArrowDown", "Escape"}

\* a key pressed outside the textarea and the slider
\* the handler with a seek that restarts the advance timer
handleKeydown_SeekRestartsTimer(s, key, shiftKey) ==
    IF s.appState \in {"input", "loading", "countdown"} THEN s
    ELSE CASE key = " " -> togglePlay(s)
           [] key = "ArrowLeft" ->
                startTimer(persistState([s EXCEPT !.wordIndex =
                                  Max(0, @ - (IF shiftKey THEN 10 ELSE 1))]))
           [] key = "ArrowRight" ->
                startTimer(persistState([s EXCEPT !.wordIndex =
                                  Min(Len(s.tokens) - 1, @ + (IF shiftKey THEN 10 ELSE 1))]))
           [] key = "ArrowUp" -> handleWpmChange([s EXCEPT !.wpm = Min(2000, @ + 25)])
           [] key = "ArrowDown" -> handleWpmChange([s EXCEPT !.wpm = Max(50, @ - 25)])
           [] key = "Escape" -> goBack(s)
           [] OTHER -> s

\* the handler without the early return for the countdown
handleKeydown_ActiveInCountdown(s, key, shiftKey) ==
    IF s.appState \in {"input", "loading"} THEN s
    ELSE CASE key = " " -> togglePlay(s)
           [] key = "ArrowLeft" ->
                persistState([s EXCEPT !.wordIndex =
                                  Max(0, @ - (IF shiftKey THEN 10 ELSE 1))])
           [] key = "ArrowRight" ->
                persistState([s EXCEPT !.wordIndex =
                                  Min(Len(s.tokens) - 1, @ + (IF shiftKey THEN 10 ELSE 1))])
           [] key = "ArrowUp" -> handleWpmChange([s EXCEPT !.wpm = Min(2000, @ + 25)])
           [] key = "ArrowDown" -> handleWpmChange([s EXCEPT !.wpm = Max(50, @ - 25)])
           [] key = "Escape" -> goBack(s)
           [] OTHER -> s

handleKeydown(s, key, shiftKey) ==
    IF s.appState \in {"input", "loading", "countdown"} THEN s
    ELSE CASE key = " " -> togglePlay(s)
           [] key = "ArrowLeft" ->
                persistState([s EXCEPT !.wordIndex =
                                  Max(0, @ - (IF shiftKey THEN 10 ELSE 1))])
           [] key = "ArrowRight" ->
                persistState([s EXCEPT !.wordIndex =
                                  Min(Len(s.tokens) - 1, @ + (IF shiftKey THEN 10 ELSE 1))])
           [] key = "ArrowUp" -> handleWpmChange([s EXCEPT !.wpm = Min(2000, @ + 25)])
           [] key = "ArrowDown" -> handleWpmChange([s EXCEPT !.wpm = Max(50, @ - 25)])
           [] key = "Escape" -> goBack(s)
           [] OTHER -> s

\* the slider: bind:value sets wpm, then oninput runs
slide(s, value) == handleWpmChange([s EXCEPT !.wpm = value])

resumeSession(s) ==
    LET saved == loadState(s.storage)
        s1 == IF saved.sourceText # <<>>
              THEN LET toks == tokenize(saved.sourceText)
                   IN  [s EXCEPT !.sourceText = saved.sourceText,
                                 !.tokens = toks,
                                 !.wordIndex = Min(saved.wordIndex, Len(toks) - 1),
                                 !.appState = IF Len(toks) > 0 THEN "paused" ELSE @]
              ELSE s
    IN  [s1 EXCEPT !.hasSavedSession = FALSE]

\* the keydown listener is removed with the component's markup
onDestroy(s) == stopTimer(s)

\* onMount restoring the session at once instead of offering it: what C12
\* rests on
mounted_AutoResume(stored) ==
    LET saved == loadState(stored)
        toks == tokenize(saved.sourceText)
    IN  [appState |-> IF Len(toks) > 0 THEN "paused" ELSE "input",
         inputValue |-> <<>>, sourceText |-> saved.sourceText, tokens |-> toks,
         wordIndex |-> 0, wpm |-> IF saved.wpm < 900 THEN saved.wpm ELSE 900,
         errorMessage |-> "", hasSavedSession |-> saved.sourceText # <<>>,
         countdownValue |-> 0, timers |-> <<>>,
         inflight |-> [extract |-> 0, summarize |-> 0], storage |-> stored]

\* onMount: the state of the page once it is mounted over the stored item
mounted(stored) ==
    LET saved == loadState(stored)
    IN  [appState |-> "input", inputValue |-> <<>>, sourceText |-> <<>>, tokens |-> <<>>,
         wordIndex |-> 0, wpm |-> Min(saved.wpm, 900), errorMessage |-> "",
         hasSavedSession |-> saved.sourceText # <<>>, countdownValue |-> 0,
         timers |-> <<>>, inflight |-> [extract |-> 0, summarize |-> 0],
         storage |-> stored]
\* ------------------------------------------------------------------ inputs
Blank == <<" ", "\n">>

Plain == <<"a", ",", " ", "b", ".", " ", "c">>

Address == <<"h", "t", "t", "p", ":", "/", "/", "x">>

Article == <<"a", ",", "\t", "b", ".", "\n", "c">>

\* a text of one token
Single == <<"a">>

\* what the user types or pastes
InputTexts == {Blank, Plain, Address, Single}

Apis == {"extract", "summarize"}

\* the responses of the two apis
Responses ==
    [ok : {TRUE}, text : {Article, Blank}, message : {""}]
        \cup [ok : {FALSE}, text : {<<>>}, message : {"", "Too many requests"}]

\* what localStorage holds when the page is opened
InitialStorage == {NoItem, Item(Text(<<>>), Text(Plain), Num(450), Num(1))}

\* the wpm values explored
ExploredWpm == {450 + 25 * k : k \in 0..MaxWpmSteps}

SliderValues == {100 + 25 * k : k \in 0..32}

Reading == {"playing", "paused", "finished"}

Requests(s) == s.inflight["extract"] + s.inflight["summarize"]

\* submissions in progress
Pending(s) == Count(s.timers, "paste") + Requests(s) + Count(s.timers, "countdown")

\* ------------------------------------------------------------------ actions
\* a user action that leaves the page in state s
UserStep(s, mark) ==
    /\ ~destroyed
    /\ acted < MaxActions
    /\ Count(timers, "paste") > 0 => haste < MaxHaste
    /\ Becomes(s)
    /\ acted' = acted + 1
    /\ haste' = IF Count(timers, "paste") > 0 /\ Count(s.timers, "paste") > 0
                THEN haste + 1 ELSE 0
    /\ since' = mark
    /\ UNCHANGED <<call, result, destroyed, ticks, server>>

Tick(t) == IF t = "even" THEN "odd" ELSE IF t = "odd" THEN "even" ELSE t

\* a timer callback or a response that leaves the page in state s
EnvStep(s, mark) ==
    /\ Becomes(s)
    /\ acted' = acted
    /\ haste' = IF Count(s.timers, "paste") > 0 THEN haste ELSE 0
    /\ since' = mark
    /\ UNCHANGED <<call, result, destroyed, server>>
    /\ ticks' = Tick(ticks)

PlayMark == IF appState = "playing" THEN "pause" ELSE "other"

Type(v) ==
    /\ appState = "input"
    /\ v # inputValue
    /\ UserStep([Cur EXCEPT !.inputValue = v], "other")

\* the pasted text lands in the textarea once handlePaste has armed its timer
Paste(v) ==
    /\ appState = "input"
    /\ Pending(Cur) < MaxPending
    /\ UserStep([Cur EXCEPT !.inputValue = v,
                            !.timers = Arm(@, "paste", Ms(50), FALSE, 0)], "other")

\* handleInputKeydown: Enter without shift in the textarea
Enter ==
    /\ appState = "input"
    /\ Pending(Cur) < MaxPending
    /\ UserStep(processInput(Cur), "other")

Drop(supported) ==
    /\ appState = "input" => Pending(Cur) < MaxPending
    /\ UserStep(handleDrop(Cur, supported), IF appState = "input" THEN "other" ELSE since)

ClickResume ==
    /\ appState \in {"input", "loading"}
    /\ hasSavedSession
    /\ UserStep(resumeSession(Cur), "other")

PressKey(key, shiftKey) ==
    /\ shiftKey => key \in {"ArrowLeft", "ArrowRight"}
    /\ handleKeydown(Cur, key, shiftKey).wpm \in ExploredWpm \cup {wpm}
    /\ UserStep(handleKeydown(Cur, key, shiftKey),
                IF key = "Escape" /\ appState \in Reading \cup {"countdown"} THEN "back"
                ELSE IF appState \notin Reading THEN since
                ELSE IF key = " " THEN PlayMark
                ELSE "other")

ClickPlay ==
    /\ appState \in Reading
    /\ UserStep(togglePlay(Cur), PlayMark)

ClickRestart ==
    /\ appState \in Reading
    /\ UserStep(restart(Cur), "other")

ClickBack ==
    /\ appState \in Reading
    /\ UserStep(goBack(Cur), "back")

Slide(value) ==
    /\ appState \in Reading
    /\ value # wpm
    /\ value \in ExploredWpm
    /\ UserStep(slide(Cur, value), "other")

\* the state in which the callback of timer i runs
Fired(i) == [Cur EXCEPT !.timers = Remove(@, i)]

Due(i, kind) == timers[i].kind = kind /\ CanFire(timers, i)

AdvanceTimer ==
    \E i \in 1..Len(timers) :
        /\ Due(i, "advance")
        /\ EnvStep(advance(Fired(i)), since)

CountdownTimer ==
    \E i \in 1..Len(timers) :
        /\ Due(i, "countdown")
        /\ EnvStep(countdownTick(Fired(i), timers[i].arg), since)

PasteTimer ==
    \E i \in 1..Len(timers) :
        /\ Due(i, "paste")
        /\ EnvStep(pasted(Fired(i)), since)

SaveTimer ==
    \E i \in 1..Len(timers), ok \in BOOLEAN :
        /\ Due(i, "save")
        /\ EnvStep(saveState(Fired(i), timers[i].arg, ok), since)

Response(api, r) ==
    /\ inflight[api] > 0
    /\ EnvStep(respond([Cur EXCEPT !.inflight[api] = @ - 1], api, r), "other")

\* no function is applied on its own
NoCall == call = [name |-> "none", args |-> <<>>, returned |-> FALSE] /\ result = <<>>

\* progress is not observed
Unobserved == ticks = "off"

\* nothing has happened on the page yet
Fresh ==
    /\ acted = 0
    /\ haste = 0
    /\ since = "other"
    /\ destroyed = FALSE
    /\ rateLimitStore = EmptyStore
    /\ now = 0

Init ==
    /\ \E stored \in InitialStorage : Is(mounted(stored))
    /\ Fresh
    /\ NoCall
    /\ Unobserved

User ==
    \/ \E v \in InputTexts : Type(v)
    \/ \E v \in InputTexts : Paste(v)
    \/ Enter
    \/ \E supported \in BOOLEAN : Drop(supported)
    \/ ClickResume
    \/ \E key \in Keys, shiftKey \in BOOLEAN : PressKey(key, shiftKey)
    \/ ClickPlay
    \/ ClickRestart
    \/ ClickBack
    \/ \E value \in SliderValues : Slide(value)

Callback ==
    \/ AdvanceTimer
    \/ CountdownTimer
    \/ PasteTimer
    \/ SaveTimer

Answer == \E api \in Apis, r \in Responses : Response(api, r)

Next ==
    \/ User
    \/ Callback
    \/ Answer

Spec == Init /\ [][Next]_vars
\* ------------------------------------------------------------------ claims
Advances(ts) == Count(ts, "advance")

\* C1: whenever the token sequence is non-empty, 0 <= index < tokens.length
C1_IndexInRange == Len(tokens) > 0 => (0 <= wordIndex /\ wordIndex < Len(tokens))
\* C2: whenever the playback state is not Playing, no advance timer is pending
C2_NoAdvanceOutsidePlaying == appState # "playing" => Advances(timers) = 0
\* C3: after a pause taken in Playing, and until the next user action, the page
\* stays Paused with no advance pending (so no advance fires and the index rests)
C3_PauseCancelsAdvance == since = "pause" => (appState = "paused" /\ Advances(timers) = 0)
\* C4: at every moment at most one advance timer is pending
C4_OneAdvance == Advances(timers) <= 1

\* Playing beyond the first token with the one advance pending
C4_Witness == appState = "playing" /\ wordIndex >= 1 /\ Advances(timers) = 1
\* ------------------------------------------------------------------ playback
\* the tokens a text of the playback runs is made of
MaxTokens == 3

Vocabulary == {<<"a">>, <<"b", ".">>, <<"c", ",">>}

HelloWorldBye ==
    <<"H", "e", "l", "l", "o", " ", "w", "o", "r", "l", "d", ".", " ", "B", "y", "e">>

RECURSIVE Join(_)
Join(words) ==
    IF Len(words) = 0 THEN <<>>
    ELSE IF Len(words) = 1 THEN words[1]
    ELSE words[1] \o <<" ">> \o Join(Tail(words))

PlaybackTexts ==
    {HelloWorldBye} \cup
    {Join(words) : words \in UNION {[1..n -> Vocabulary] : n \in 1..MaxTokens}}

PlaybackWpm == {450, 600}

\* The page right after a plain text was submitted on a fresh page whose stored
\* wpm is w: the session is live and its countdown runs.
Submitted(text, w) ==
    processInput([mounted(Item(Text(<<>>), Text(<<>>), Num(w), Num(0)))
                     EXCEPT !.inputValue = text])

PlaybackInit ==
    /\ \E text \in PlaybackTexts, w \in PlaybackWpm : Is(Submitted(text, w))
    /\ Fresh
    /\ NoCall
    /\ Unobserved

\* uninterrupted: only the timers of the session run, and every one expires
PlaybackNext ==
    \/ AdvanceTimer
    \/ CountdownTimer
    \/ SaveTimer

PlaybackSpec ==
    /\ PlaybackInit
    /\ [][PlaybackNext]_vars
    /\ WF_vars(AdvanceTimer)
    /\ WF_vars(CountdownTimer)
    /\ WF_vars(SaveTimer)

\* the delay the pacing rule gives a token at w words per minute, in tenths of
\* the base delay: 15 after . ! ?, 12 after , ; :, else 10
PaceTenths(token) ==
    LET last == token[Len(token)]
    IN  IF last = "." \/ last = "!" \/ last = "?" THEN 15
        ELSE IF last = "," \/ last = ";" \/ last = ":" THEN 12
        ELSE 10

\* delay d is (60000 / w) * tenths / 10
IsPaced(d, token, w) == d.num * 10 * w = 60000 * PaceTenths(token) * d.den

PendingAdvances == {i \in 1..Len(timers) : timers[i].kind = "advance"}

\* Playing: one advance is pending, paced by the token shown, which is not the
\* last; Finished: the index is n - 1 and no advance is pending
PlaybackInv ==
    /\ appState \in {"countdown", "playing", "finished"}
    /\ appState = "countdown" => (wordIndex = 0 /\ PendingAdvances = {})
    /\ appState = "playing" =>
           /\ wordIndex < Len(tokens) - 1
           /\ Cardinality(PendingAdvances) = 1
           /\ \A i \in PendingAdvances :
                  IsPaced(timers[i].delay, At(tokens, wordIndex), wpm)
    /\ appState = "finished" => (wordIndex = Len(tokens) - 1 /\ PendingAdvances = {})
    /\ (sourceText = HelloWorldBye /\ wpm = 600 /\ appState = "playing") =>
           \A i \in PendingAdvances :
               DelayEq(timers[i].delay, IF wordIndex = 0 THEN Ms(100) ELSE Ms(150))

\* the index moves only by an advance, one token at a time
PlaybackStep ==
    wordIndex' # wordIndex =>
        (wordIndex' = wordIndex + 1 /\ appState = "playing" /\ PendingAdvances # {})

\* C5: uninterrupted playback of n tokens from index 0 advances one token at a
\* time, each advance paced by the token it leaves, and ends Finished at index
\* n - 1 with no advance scheduled (Hello world. Bye at 600: 100 ms, 150 ms)
C5_UninterruptedPlayback ==
    /\ []PlaybackInv
    /\ [][PlaybackStep]_vars
    /\ <>[](appState = "finished" /\ wordIndex = Len(tokens) - 1 /\ PendingAdvances = {})

\* Hello world. Bye played to its end at 600 wpm
C5_Witness ==
    /\ sourceText = HelloWorldBye
    /\ wpm = 600
    /\ appState = "finished"
    /\ wordIndex = 2
\* ------------------------------------------------------------------ getWordDelay
MaxWordLen == 2

WordChars == {"a", ".", "!", "?", ",", ";", ":"}

Hello == <<"h", "e", "l", "l", "o">>

Words ==
    {Hello, Hello \o <<".">>, Hello \o <<",">>} \cup
    UNION {[1..n -> WordChars] : n \in 1..MaxWordLen}

DelayWpm == {100, 450, 600, 900, 2000}

\* a function is to be applied to args, on a page that stays as it was mounted
Called(name, args) ==
    /\ Is(mounted(NoItem))
    /\ Fresh
    /\ call = [name |-> name, args |-> args, returned |-> FALSE]
    /\ result = <<>>
    /\ Unobserved

\* the function returns value
Return(value) ==
    /\ ~call.returned
    /\ call' = [call EXCEPT !.returned = TRUE]
    /\ result' = value
    /\ UNCHANGED <<page, acted, haste, since, destroyed, ticks, server>>

Returned(name) == call.name = name /\ call.returned

GetWordDelayInit ==
    \E word \in Words, w \in DelayWpm : Called("getWordDelay", <<word, w>>)

GetWordDelay ==
    /\ call.name = "getWordDelay"
    /\ Return(getWordDelay(call.args[1], call.args[2]))

GetWordDelaySpec == GetWordDelayInit /\ [][GetWordDelay]_vars

\* C6: the delay of a token is 60000 / wpm times 1.5 when its last character
\* is one of . ! ?, times 1.2 when it is one of , ; :, and times 1 otherwise
\* (at 600: hello 100 ms, hello. 150 ms, hello, 120 ms)
C6_DelayByLastCharacter ==
    Returned("getWordDelay") =>
        LET word == call.args[1]
            w == call.args[2]
        IN  /\ IsPaced(result, word, w)
            /\ (w = 600 /\ word = Hello) => DelayEq(result, Ms(100))
            /\ (w = 600 /\ word = Hello \o <<".">>) => DelayEq(result, Ms(150))
            /\ (w = 600 /\ word = Hello \o <<",">>) => DelayEq(result, Ms(120))

\* a token with a full stop inside and a plain last character got its delay
C6_Witness ==
    /\ Returned("getWordDelay")
    /\ call.args[1] = <<".", "a">>
    /\ call.args[2] = 450
    /\ DelayLT(result, Ms(134))
\* ------------------------------------------------------------------ acquisition failures
\* an acquisition fails in this step: the api answers with an error, or with a
\* text that has no token
Failure ==
    \E api \in Apis, r \in Responses :
        /\ ~r.ok \/ tokenize(r.text) = <<>>
        /\ Response(api, r)

\* C7: an acquisition failure returns the page to Input with an error message
\* and no session (no tokens, no sourceText, index 0), and requests no save
C7_FailureLeavesNoSession ==
    [][Failure =>
          /\ appState' = "input"
          /\ errorMessage' # ""
          /\ tokens' = <<>>
          /\ sourceText' = <<>>
          /\ wordIndex' = 0
          /\ Count(timers', "save") <= Count(timers, "save")]_vars
\* ------------------------------------------------------------------ progress
\* The page with every pending timer expiring and every request answered,
\* whatever the user does.
ObservedInit ==
    /\ \E stored \in InitialStorage : Is(mounted(stored))
    /\ Fresh
    /\ NoCall
    /\ ticks = "even"

\* a timer is pending or a request is in flight: ENABLED (Callback \/ Answer),
\* since the timer armed first can always run
EnvEnabled == Len(timers) > 0 \/ Requests(Cur) > 0

\* a timer callback or a response: the steps that change ticks
EnvTurn == EnvEnabled /\ ticks' = Tick(ticks)

\* WF_ticks(EnvTurn) is WF_vars(Callback \/ Answer) with its ENABLED written out
FairSpec == ObservedInit /\ [][Next]_vars /\ WF_ticks(EnvTurn)

\* the attempt has resolved: a countdown runs, or the page is back in Input
Resolved == appState \in {"countdown", "input"}

Saves(ts) == SelectSeq(ts, LAMBDA t : t.kind = "save")

\* Enter is pressed, or the paste timer runs, on a textarea of blanks
BlankSubmit == Trim(inputValue) = <<>> /\ (Enter \/ PasteTimer)

\* C9: submitting an empty or blank text, by Enter or by the paste timer, leaves
\* the state (Input stays Input), the session and the requested saves as they were
C9_BlankSubmitIgnored ==
    [][BlankSubmit =>
          /\ appState' = appState
          /\ tokens' = tokens
          /\ sourceText' = sourceText
          /\ wordIndex' = wordIndex
          /\ Saves(timers') = Saves(timers)
          /\ inflight' = inflight
          /\ Count(timers', "countdown") = Count(timers, "countdown")]_vars

\* blanks were pasted and the paste timer has run: one user action, one callback
C9_Witness ==
    /\ appState = "input"
    /\ inputValue = Blank
    /\ acted = 1
    /\ ticks = "odd"
    /\ timers = <<>>
\* ------------------------------------------------------------------ back
\* C10: after a back or escape action taken in Countdown, Playing, Paused or
\* Finished, and until the next user action, the page is in Input without a
\* session (no tokens, no sourceText, index 0) and neither an advance nor a
\* countdown timer is pending
C10_BackDiscardsSession ==
    since = "back" =>
        /\ appState = "input"
        /\ tokens = <<>>
        /\ sourceText = <<>>
        /\ wordIndex = 0
        /\ Advances(timers) = 0
        /\ Count(timers, "countdown") = 0
\* ------------------------------------------------------------------ teardown
\* the component is destroyed: no user event reaches it any more, the timers
\* it leaves pending still run
Destroy ==
    /\ ~destroyed
    /\ Becomes(onDestroy(Cur))
    /\ destroyed' = TRUE
    /\ UNCHANGED <<acted, haste, since, call, result, ticks, server>>

TeardownNext ==
    \/ Next
    \/ Destroy

TeardownSpec == Init /\ [][TeardownNext]_vars

\* C11: after teardown no advance, no countdown and no debounced save is pending
C11_TeardownCancelsTimers ==
    destroyed =>
        /\ Advances(timers) = 0
        /\ Count(timers, "countdown") = 0
        /\ Count(timers, "save") = 0
\* ------------------------------------------------------------------ stored records
\* what localStorage may hold under STORAGE_KEY: nothing, text that is not
\* JSON, or an object whose fields are of the right type or not, in range or not
StoredUrls == {Text(<<>>), Other}

StoredTexts == {Text(Plain), Text(Single), Text(<<>>), Text(Blank), Num(7), Other}

StoredWpms == {Num(0 - 5), Num(0), Num(10), Num(450), Num(900), Num(5000), Text(<<"x">>), Other}

StoredIndexes == {Num(0 - 1), Num(0), Num(1), Num(2), Num(3), Num(40), Text(<<"x">>), Other}

StoredRecords ==
    {NoItem, Corrupt} \cup
    {Item(u, t, w, i) : u \in StoredUrls, t \in StoredTexts, w \in StoredWpms,
                        i \in StoredIndexes}

\* the page opened over any stored record; the user accepts the resume button
\* or not and uses the keys, and the timers run
ResumeInit ==
    /\ \E stored \in StoredRecords : Is(mounted(stored))
    /\ Fresh
    /\ NoCall
    /\ Unobserved

ResumeNext ==
    \/ ClickResume
    \/ \E key \in Keys, shiftKey \in BOOLEAN : PressKey(key, shiftKey)
    \/ AdvanceTimer
    \/ SaveTimer

ResumeSpec == ResumeInit /\ [][ResumeNext]_vars
\* the stored record has a sourceText that is a non-empty string
HasStoredText(stored) ==
    /\ stored.kind = "object"
    /\ stored.sourceText.t = "string"
    /\ stored.sourceText.v # <<>>

\* the page as it is opened: Input, no session, no timer, and the resume
\* button offered exactly when the record has a non-empty sourceText
Opened ==
    /\ appState = "input"
    /\ tokens = <<>>
    /\ sourceText = <<>>
    /\ wordIndex = 0
    /\ timers = <<>>
    /\ hasSavedSession <=> HasStoredText(storage)

\* C12: whatever record is stored, the page opens in Input with no session and
\* no timer, offers the resume button exactly when the record has a non-empty
\* sourceText, and enters Playing or Paused from there only when it is accepted
C12_OpensInInput ==
    /\ [](acted = 0 => Opened)
    /\ [][(appState = "input" /\ appState' \in {"playing", "paused"}) => ClickResume]_vars

\* opened over a record with a text and a wpm of the wrong type
C12_Witness ==
    /\ acted = 0
    /\ hasSavedSession
    /\ storage.kind = "object"
    /\ storage.wpm.t = "string"
    /\ appState = "input"
\* ------------------------------------------------------------------ resume
Clamp(x, lo, hi) == IF x < lo THEN lo ELSE IF x > hi THEN hi ELSE x

\* the index a stored record holds: its wordIndex when that is a number not
\* below 0, else 0
StoredIndex(stored) ==
    IF stored.wordIndex.t = "number" /\ stored.wordIndex.v >= 0 THEN stored.wordIndex.v ELSE 0

\* C13: accepting the resume button over a record with a non-empty sourceText
\* gives a Paused session of that text at clamp(savedIndex, 0, tokens.length - 1),
\* an index within the tokens, and no advance armed
C13_ResumeRecreatesSession ==
    [][(ClickResume /\ HasStoredText(storage)) =>
          /\ appState' = "paused"
          /\ sourceText' = storage.sourceText.v
          /\ tokens' = tokenize(sourceText')
          /\ wordIndex' = Clamp(StoredIndex(storage), 0, Len(tokens') - 1)
          /\ 0 <= wordIndex' /\ wordIndex' < Len(tokens')
          /\ Advances(timers') = 0]_vars
\* ------------------------------------------------------------------ seek
\* an arrow key moves the index by n on the reading screen
Seek(n) ==
    /\ appState \in Reading
    /\ PressKey(IF n < 0 THEN "ArrowLeft" ELSE "ArrowRight", n \in {0 - 10, 10})

\* C14: a seek of n in Playing, Paused or Finished sets the index to
\* clamp(index + n, 0, tokens.length - 1), an index within the tokens
C14_SeekClamps ==
    [][\A n \in {0 - 10, 0 - 1, 1, 10} :
           Seek(n) =>
               /\ wordIndex' = Clamp(wordIndex + n, 0, Len(tokens) - 1)
               /\ 0 <= wordIndex' /\ wordIndex' <= Len(tokens) - 1
               /\ appState' = appState]_vars
\* ------------------------------------------------------------------ wpm keys
\* the page opened over a session stored with one of these wpm values; the
\* user resumes it and turns the wpm up and down for as long as they like
WpmStored == {10, 450, 460, 5000}

WpmInit ==
    /\ \E w \in WpmStored : Is(mounted(Item(Text(<<>>), Text(Plain), Num(w), Num(0))))
    /\ Fresh
    /\ NoCall
    /\ Unobserved

\* ArrowUp or ArrowDown on the reading screen
TurnWpm(key) ==
    /\ key \in {"ArrowUp", "ArrowDown"}
    /\ appState \in Reading
    /\ Becomes(handleKeydown(Cur, key, FALSE))
    /\ UNCHANGED <<acted, haste, since, call, result, destroyed, ticks, server>>

WpmNext ==
    \/ ClickResume
    \/ \E key \in {"ArrowUp", "ArrowDown"} : TurnWpm(key)
    \/ SaveTimer

WpmSpec == WpmInit /\ [][WpmNext]_vars

\* C15: ArrowUp and ArrowDown set wpm to clamp(wpm + 25, 50, 2000) and
\* clamp(wpm - 25, 50, 2000), a value in [50, 2000]
C15_WpmClamped ==
    [][/\ TurnWpm("ArrowUp") => wpm' = Clamp(wpm + 25, 50, 2000)
       /\ TurnWpm("ArrowDown") => wpm' = Clamp(wpm - 25, 50, 2000)
       /\ (\E key \in {"ArrowUp", "ArrowDown"} : TurnWpm(key)) =>
              (50 <= wpm' /\ wpm' <= 2000)]_vars
\* ------------------------------------------------------------------ debounce
\* The debounced save called on its own, on a clock: call.args are the
\* arguments of the calls so far; result holds the time now, the times of the
\* calls, the time each pending save timer was armed at, and the writes made.
MaxCalls == 3

MaxTicks == 6

\* createDebouncedSave(500)
SaveInterval == 500

\* the clock moves by half an interval
Step == SaveInterval \div 2

DebounceInit ==
    /\ Is(mounted(NoItem))
    /\ Fresh
    /\ Unobserved
    /\ call = [name |-> "debouncedSave", args |-> <<>>, returned |-> FALSE]
    /\ result = [now |-> 0, calledAt |-> <<>>, armed |-> <<>>, writes |-> <<>>]

LastK(seq, k) == SubSeq(seq, Len(seq) - k + 1, Len(seq))

\* the n-th call saves a session at index n - 1
DebounceCall ==
    /\ Len(call.args) < MaxCalls
    /\ LET state == [url |-> <<>>, sourceText |-> Plain, wpm |-> 450,
                      wordIndex |-> Len(call.args)]
           s == debouncedSave(Cur, state)
       IN  /\ Becomes(s)
           /\ call' = [call EXCEPT !.args = Append(@, state)]
           /\ result' = [result EXCEPT
                  !.calledAt = Append(@, result.now),
                  !.armed = Append(LastK(@, Len(Saves(s.timers)) - 1), result.now)]
    /\ UNCHANGED <<acted, haste, since, destroyed, ticks, server>>

\* a save timer runs when its delay has elapsed since it was armed
DebounceFire ==
    \E i \in 1..Len(timers), ok \in BOOLEAN :
        /\ result.armed[i] + timers[i].delay.num = result.now
        /\ Becomes(saveState(Fired(i), timers[i].arg, ok))
        /\ result' = [result EXCEPT
               !.armed = Remove(@, i),
               !.writes = Append(@, [at |-> result.now, arg |-> timers[i].arg,
                                     calls |-> Len(call.args), ok |-> ok])]
        /\ UNCHANGED <<acted, haste, since, call, destroyed, ticks, server>>

\* time passes, but not past a timer that is due
DebounceTick ==
    /\ result.now < MaxTicks * Step
    /\ \A i \in 1..Len(timers) : result.armed[i] + timers[i].delay.num > result.now
    /\ result' = [result EXCEPT !.now = @ + Step]
    /\ UNCHANGED <<page, acted, haste, since, call, destroyed, ticks, server>>

DebounceNext ==
    \/ DebounceCall
    \/ DebounceFire
    \/ DebounceTick

DebounceSpec == DebounceInit /\ [][DebounceNext]_vars

\* C16: every write is made one interval after the most recent call, with the
\* argument of that call, and once per burst: no call is written twice, and
\* when no timer is left pending the last call has been written
C16_DebounceCoalesces ==
    call.name = "debouncedSave" =>
        /\ \A k \in 1..Len(result.writes) :
               LET w == result.writes[k]
               IN  /\ w.calls >= 1
                   /\ w.arg = call.args[w.calls]
                   /\ w.at = result.calledAt[w.calls] + SaveInterval
                   /\ w.ok => w.arg.wordIndex = w.calls - 1
                   /\ \A j \in 1..(k - 1) : result.writes[j].calls < w.calls
        /\ Len(Saves(timers)) <= 1
        /\ (timers = <<>> /\ call.args # <<>>) =>
               /\ result.writes # <<>>
               /\ result.writes[Len(result.writes)].calls = Len(call.args)

\* two calls half an interval apart, then one write, of the second call
C16_Witness ==
    /\ call.name = "debouncedSave"
    /\ Len(call.args) = 2
    /\ result.calledAt = <<0, Step>>
    /\ Len(result.writes) = 1
    /\ result.writes[1].at = Step + SaveInterval
    /\ storage = Stringify(call.args[2])
\* ------------------------------------------------------------------ persistence
\* a session is on the page
Live == appState \in Reading \cup {"countdown"}

\* what a save of the live session would write
LiveState == [url |-> <<>>, sourceText |-> sourceText, wpm |-> wpm, wordIndex |-> wordIndex]

\* a save of the live session is pending
SaveRequested ==
    /\ Saves(timers) # <<>>
    /\ Saves(timers)[Len(Saves(timers))].arg = LiveState

\* C17: every step that changes the index, the wpm or the sourceText of the
\* live session (accepting the stored session aside, which takes its values
\* from storage) leaves a save of the new values pending
C17_MutationRequestsSave ==
    [][(Live' /\ LiveState' # LiveState /\ ~ClickResume) => SaveRequested']_vars

\* ------------------------------------------------------------------ load
\* loadState applied on its own to what localStorage may hold
LoadUrls == StoredUrls \cup {Text(Address)}

LoadRecords ==
    {NoItem, Corrupt} \cup
    {Item(u, t, w, i) : u \in LoadUrls, t \in StoredTexts, w \in StoredWpms,
                        i \in StoredIndexes}

LoadInit == \E stored \in LoadRecords : Called("loadState", <<stored>>)

Load ==
    /\ call.name = "loadState"
    /\ Return(loadState(call.args[1]))

LoadSpec == LoadInit /\ [][Load]_vars

\* the value of a field when it is a string, the default otherwise
StringOr(x, default) == IF x.t = "string" THEN x.v ELSE default

\* the value of a field when it is a number no smaller than least, the default otherwise
NumberOr(x, least, default) ==
    IF x.t # "number" THEN default
    ELSE IF x.v < least THEN default
    ELSE x.v

\* C18: load always returns a record; a field of the wrong type or out of
\* range (wpm not a number or <= 0, wordIndex not a number or < 0, url or
\* sourceText not a string) is replaced by its default (450, 0, "", "") and the
\* other fields are kept; missing or corrupt data gives the full default record
C18_LoadValidatesFields ==
    Returned("loadState") =>
        LET stored == call.args[1]
        IN  /\ DOMAIN result = {"url", "sourceText", "wpm", "wordIndex"}
            /\ stored.kind # "object" =>
                   result = [url |-> <<>>, sourceText |-> <<>>, wpm |-> 450, wordIndex |-> 0]
            /\ stored.kind = "object" =>
                   /\ result.url = StringOr(stored.url, <<>>)
                   /\ result.sourceText = StringOr(stored.sourceText, <<>>)
                   /\ result.wpm = NumberOr(stored.wpm, 1, 450)
                   /\ result.wordIndex = NumberOr(stored.wordIndex, 0, 0)
                   /\ stored.wpm \in {Num(0 - 5), Text(<<"x">>)} => result.wpm = 450
            /\ result.wpm > 0
            /\ result.wordIndex >= 0

\* a record whose wpm is -5 and whose other fields are valid has been loaded
C18_Witness ==
    /\ Returned("loadState")
    /\ call.args[1] = Item(Text(Address), Text(Plain), Num(0 - 5), Num(2))
    /\ result = [url |-> Address, sourceText |-> Plain, wpm |-> 450, wordIndex |-> 2]
\* ------------------------------------------------------------------ failed writes
\* the save timer i runs and localStorage.setItem throws
FailedWrite(i) ==
    /\ Due(i, "save")
    /\ EnvStep(saveState(Fired(i), timers[i].arg, FALSE), since)

Playback(ts) == SelectSeq(ts, LAMBDA t : t.kind \in {"advance", "countdown"})

\* C19: a write that fails changes neither the playback state, the index, the
\* wpm, the tokens, the message shown nor the pending advance and countdown
\* timers, and leaves the page as a successful write would, storage aside
C19_FailedWriteHarmless ==
    [][\A i \in 1..Len(timers) :
          FailedWrite(i) =>
              LET written == saveState(Fired(i), timers[i].arg, TRUE)
              IN  /\ appState' = appState
                  /\ wordIndex' = wordIndex
                  /\ wpm' = wpm
                  /\ tokens' = tokens
                  /\ sourceText' = sourceText
                  /\ errorMessage' = errorMessage
                  /\ Playback(timers') = Playback(timers)
                  /\ timers' = written.timers
                  /\ appState' = written.appState
                  /\ wordIndex' = written.wordIndex
                  /\ storage' = storage]_vars

\* playing at the second token with the next advance pending, after the writes
\* of the new session and of the first advance have both failed
C19_Witness ==
    /\ appState = "playing"
    /\ wordIndex = 1
    /\ Advances(timers) = 1
    /\ Saves(timers) = <<>>
    /\ storage = NoItem
\* ------------------------------------------------------------------ tokenize
\* tokenize applied on its own to every text of up to MaxTextLen characters
\* over a letter, a comma and the whitespace characters, to the example of the
\* documentation, and to a value that is not a string
MaxTextLen == 5

TextChars == {"a", ","} \cup Whitespace

Example == <<"a", " ", " ", "b", "\n", "\t", "c">>

TextsOf(n) == [1..n -> TextChars]

TokenizeTexts ==
    UNION {TextsOf(n) : n \in 0..MaxTextLen} \cup {Example, Undefined}

TokenizeInit == \E text \in TokenizeTexts : Called("tokenize", <<text>>)

Tokenize ==
    /\ call.name = "tokenize"
    /\ Return(tokenize(call.args[1]))

TokenizeSpec == TokenizeInit /\ [][Tokenize]_vars

\* where the runs of non-whitespace characters of text begin
RunStarts(text) ==
    {i \in 1..Len(text) :
        text[i] \notin Whitespace /\ (i = 1 \/ text[i - 1] \in Whitespace)}

\* where the run that begins at i ends
RunEnd(text, i) ==
    CHOOSE j \in i..Len(text) :
        /\ \A k \in i..j : text[k] \notin Whitespace
        /\ j = Len(text) \/ text[j + 1] \in Whitespace

\* the maximal runs of non-whitespace characters of text, in order
Runs(text) ==
    LET starts == RunStarts(text)
        nth(k) == CHOOSE i \in starts : Cardinality({j \in starts : j <= i}) = k
    IN  [k \in 1..Cardinality(starts) |-> SubSeq(text, nth(k), RunEnd(text, nth(k)))]

\* C20: tokenize returns the maximal runs of non-whitespace characters of the
\* text, in order: no token is empty or contains a space, tab, carriage return
\* or newline, punctuation stays attached, and an empty, whitespace-only or
\* non-string input gives no token
C20_TokenizeRuns ==
    Returned("tokenize") =>
        LET text == call.args[1]
        IN  /\ IsString(text) => result = Runs(text)
            /\ ~IsString(text) => result = <<>>
            /\ \A k \in 1..Len(result) :
                   /\ result[k] # <<>>
                   /\ \A c \in 1..Len(result[k]) : result[k][c] \notin {" ", "\t", "\r", "\n"}
            /\ (IsString(text) /\ \A c \in 1..Len(text) : text[c] \in Whitespace) =>
                   result = <<>>
            /\ text = Example => result = <<<<"a">>, <<"b">>, <<"c">>>>
            /\ text = <<"a", ",", "\t", "a">> => result = <<<<"a", ",">>, <<"a">>>>

\* a text with leading whitespace, a tab between two tokens and punctuation
C20_Witness ==
    /\ Returned("tokenize")
    /\ call.args[1] = <<" ", "a", ",", "\t", "a">>
    /\ result = <<<<"a", ",">>, <<"a">>>>
\* ------------------------------------------------------------------ pivot
\* String.prototype.slice(from, to) for 0 <= from, counted from 0, to excluded
Slice(word, from, to) == SubSeq(word, from + 1, Min(to, Len(word)))

\* a pivot index that falls back between 13 and 14: what C22 rests on
getPivotIndex_Fifth(word) ==
    IF Falsy(word) THEN 0
    ELSE LET len == Len(word)
         IN  IF len <= 1 THEN 0
             ELSE IF len <= 5 THEN 1
             ELSE IF len <= 9 THEN 2
             ELSE IF len <= 13 THEN 3
             ELSE len \div 5

getPivotIndex(word) ==
    IF Falsy(word) THEN 0
    ELSE LET len == Len(word)
         IN  IF len <= 1 THEN 0
             ELSE IF len <= 3 THEN 1
             ELSE IF len <= 5 THEN 1
             ELSE IF len <= 7 THEN 2
             ELSE IF len <= 9 THEN 2
             ELSE IF len <= 11 THEN 3
             ELSE IF len <= 13 THEN 3
             ELSE len \div 4

\* a split whose right part starts at the pivot: what C21 rests on
splitAtPivot_Overlap(word) ==
    IF Falsy(word) THEN [left |-> <<>>, pivot |-> <<>>, right |-> <<>>]
    ELSE LET pivotIndex == getPivotIndex(word)
         IN  [left |-> Slice(word, 0, pivotIndex),
              pivot |-> IF pivotIndex < Len(word) THEN <<word[pivotIndex + 1]>> ELSE <<>>,
              right |-> Slice(word, pivotIndex, Len(word))]

\* word[pivotIndex] || '' is the empty string past the end of the word
splitAtPivot(word) ==
    IF Falsy(word) THEN [left |-> <<>>, pivot |-> <<>>, right |-> <<>>]
    ELSE LET pivotIndex == getPivotIndex(word)
         IN  [left |-> Slice(word, 0, pivotIndex),
              pivot |-> IF pivotIndex < Len(word) THEN <<word[pivotIndex + 1]>> ELSE <<>>,
              right |-> Slice(word, pivotIndex + 1, Len(word))]

\* The two functions applied on their own: to every word of up to MaxSpelled
\* characters over two letters and a full stop, and to one word of each
\* length up to MaxWordLength
MaxSpelled == 4

MaxWordLength == 22

PivotChars == <<"a", "b", ".">>

LongWord(n) == [i \in 1..n |-> PivotChars[((i - 1) % 3) + 1]]

PivotWords ==
    UNION {[1..n -> {"a", "b", "."}] : n \in 0..MaxSpelled}
        \cup {LongWord(n) : n \in 0..MaxWordLength}

PivotInit ==
    \E word \in PivotWords, name \in {"getPivotIndex", "splitAtPivot"} :
        Called(name, <<word>>)

PivotIndex ==
    /\ call.name = "getPivotIndex"
    /\ Return(getPivotIndex(call.args[1]))

SplitAtPivot ==
    /\ call.name = "splitAtPivot"
    /\ Return(splitAtPivot(call.args[1]))

PivotNext ==
    \/ PivotIndex
    \/ SplitAtPivot

PivotSpec == PivotInit /\ [][PivotNext]_vars

\* C21: left + pivot + right is the word; the pivot of a non-empty word is one
\* character, at an index below the length of the word; the three parts of the
\* empty word are empty
C21_SplitReconstructs ==
    Returned("splitAtPivot") =>
        LET word == call.args[1]
        IN  /\ result.left \o result.pivot \o result.right = word
            /\ word # <<>> =>
                   /\ Len(result.pivot) = 1
                   /\ getPivotIndex(word) < Len(word)
                   /\ result.pivot = <<word[getPivotIndex(word) + 1]>>
                   /\ Len(result.left) = getPivotIndex(word)
            /\ word = <<>> =>
                   result = [left |-> <<>>, pivot |-> <<>>, right |-> <<>>]

\* a word of fourteen characters has been split after its first three
C21_Witness ==
    /\ Returned("splitAtPivot")
    /\ call.args[1] = LongWord(14)
    /\ result.left = <<"a", "b", ".">>
    /\ result.pivot = <<"a">>
    /\ Len(result.right) = 10

\* the step table of the pivot index
PivotTable(len) ==
    IF len <= 1 THEN 0
    ELSE IF len <= 5 THEN 1
    ELSE IF len <= 9 THEN 2
    ELSE IF len <= 13 THEN 3
    ELSE len \div 4

\* C22: the pivot index is that of the step table for the length of the word
\* (1->0, 3->1, 5->1, 7->2, 9->2, 11->3, 13->3, 20->5), and no shorter word has
\* a larger pivot index
C22_PivotIndexSteps ==
    Returned("getPivotIndex") =>
        LET len == Len(call.args[1])
        IN  /\ result = PivotTable(len)
            /\ \A pair \in {<<1, 0>>, <<3, 1>>, <<5, 1>>, <<7, 2>>, <<9, 2>>,
                              <<11, 3>>, <<13, 3>>, <<20, 5>>} :
                   len = pair[1] => result = pair[2]
            /\ \A shorter \in 0..len : getPivotIndex(LongWord(shorter)) <= result

\* the pivot index of a word of fourteen characters, just past the table
C22_Witness ==
    /\ Returned("getPivotIndex")
    /\ Len(call.args[1]) = 14
    /\ result = 3
\* ------------------------------------------------------------------ server hook
RATE_LIMIT_WINDOW_MS == 60000

RATE_LIMIT_MAX_REQUESTS == 30

RATE_LIMIT_MAX_API_REQUESTS == 10

MAX_REQUEST_SIZE == 52428800

\* a header that the event does not carry
Absent == <<>>

\* event.request.headers.get("x-forwarded-for"), then "x-real-ip", then "unknown"
getClientIP(event) ==
    IF event.forwarded # Absent THEN Trim(Split(event.forwarded, ",")[1])
    ELSE IF event.realIP # Absent THEN event.realIP
    ELSE Unknown

\* the store after the call, and what the call returns
checkRateLimit(store, time, ip, isApiRequest) ==
    LET key == <<ip, IF isApiRequest THEN "api" ELSE "general">>
        maxRequests == IF isApiRequest THEN RATE_LIMIT_MAX_API_REQUESTS
                       ELSE RATE_LIMIT_MAX_REQUESTS
        found == store[key]
        entry == IF found = NoEntry \/ time > found.resetTime
                 THEN [count |-> 0, resetTime |-> time + RATE_LIMIT_WINDOW_MS]
                 ELSE found
        count == entry.count + 1
    IN  [store |-> [store EXCEPT ![key] = [entry EXCEPT !.count = count]],
         allowed |-> count <= maxRequests,
         remaining |-> Max(0, maxRequests - count),
         resetTime |-> entry.resetTime]

SecurityHeaders ==
    {"X-Frame-Options", "X-Content-Type-Options", "X-XSS-Protection",
     "Referrer-Policy", "Permissions-Policy", "Content-Security-Policy"}

RateLimitHeaders == {"X-RateLimit-Remaining", "X-RateLimit-Reset"}

\* a response: its status and the names of its headers
Reply(status, headers) == [status |-> status, headers |-> headers]

addSecurityHeaders(response) ==
    Reply(response.status, response.headers \cup SecurityHeaders)

\* String.prototype.toLowerCase, for the letters of the paths of the model
Lower(c) == IF c = "A" THEN "a" ELSE c

toLowerCase(text) == [i \in 1..Len(text) |-> Lower(text[i])]

\* the prefixes of suspiciousPaths that the paths of the model can begin with
suspiciousPaths == {<<"/", ".", "e", "n", "v">>, <<"/", "a", "d", "m", "i", "n">>}

\* the hook: the store after the request and the response returned, where
\* resolved is what resolve(event) returns when the request gets that far
handle(event, resolved, store, time) ==
    LET ip == getClientIP(event)
        isApiRequest == HasPrefix(event.pathname, <<"/", "a", "p", "i", "/">>)
        rateLimit == checkRateLimit(store, time, ip, isApiRequest)
        lowerPath == toLowerCase(event.pathname)
        response ==
            IF ~rateLimit.allowed
            THEN Reply(429, {"Content-Type", "Retry-After"} \cup RateLimitHeaders)
            ELSE IF /\ isApiRequest
                    /\ event.contentLength # Absent
                    /\ event.contentLength[1] > MAX_REQUEST_SIZE
            THEN Reply(413, {"Content-Type"})
            ELSE IF \E p \in suspiciousPaths : HasPrefix(lowerPath, p)
            THEN Reply(404, {})
            ELSE LET securedResponse == addSecurityHeaders(resolved)
                 IN  Reply(securedResponse.status,
                           securedResponse.headers \cup RateLimitHeaders)
    IN  [store |-> rateLimit.store, response |-> response]

\* the setInterval callback: entries whose window is over are deleted
cleanup(store, time) ==
    [key \in RateKeys |->
        IF store[key] # NoEntry /\ time > store[key].resetTime THEN NoEntry
        ELSE store[key]]

\* The hook on its own: requests of two clients arrive before and after a window has elapsed
MaxRequests == 11

MaxMinutes == 1

\* the clock moves by just over a window, so that a window is over after it
Elapse == RATE_LIMIT_WINDOW_MS + 1

Pathnames ==
    {<<"/">>, <<"/", "a", "p", "i", "/", "x">>, <<"/", "A", "d", "m", "i", "n">>}

HookRequests ==
    {[forwarded |-> f, realIP |-> Absent, pathname |-> p, contentLength |-> Absent] :
        f \in {Absent, <<"7", ",", " ", "9">>}, p \in Pathnames}
        \cup {[forwarded |-> Absent, realIP |-> <<"7">>, pathname |-> <<"/">>,
               contentLength |-> Absent],
              [forwarded |-> Absent, realIP |-> Absent,
               pathname |-> <<"/", "a", "p", "i", "/", "x">>,
               contentLength |-> <<MAX_REQUEST_SIZE + 1>>]}

Resolutions == {Reply(200, {"Content-Type"}), Reply(404, {"Content-Type"})}

RECURSIVE Sum(_, _)
Sum(f, keys) ==
    IF keys = {} THEN 0
    ELSE LET key == CHOOSE k \in keys : TRUE
         IN  f[key].count + Sum(f, keys \ {key})

Handle(event, resolved) ==
    /\ Sum(rateLimitStore, RateKeys) < MaxRequests
    /\ LET served == handle(event, resolved, rateLimitStore, now)
       IN  /\ rateLimitStore' = served.store
           /\ result' = served.response
    /\ call' = [name |-> "handle", args |-> <<event>>, returned |-> TRUE]
    /\ UNCHANGED <<page, acted, haste, since, destroyed, ticks, now>>

Cleanup ==
    /\ cleanup(rateLimitStore, now) # rateLimitStore
    /\ rateLimitStore' = cleanup(rateLimitStore, now)
    /\ UNCHANGED <<page, acted, haste, since, call, result, destroyed, ticks, now>>

Pass ==
    /\ now < MaxMinutes * Elapse
    /\ now' = now + Elapse
    /\ UNCHANGED <<page, acted, haste, since, call, result, destroyed, ticks,
                   rateLimitStore>>

HookInit ==
    /\ Is(mounted(NoItem))
    /\ Fresh
    /\ NoCall
    /\ Unobserved

HookNext ==
    \/ \E event \in HookRequests, resolved \in Resolutions : Handle(event, resolved)
    \/ Cleanup
    \/ Pass

HookSpec == HookInit /\ [][HookNext]_vars
\* the class of a request and the key it is counted under
ClassOf(event) ==
    IF HasPrefix(event.pathname, <<"/", "a", "p", "i", "/">>) THEN "api" ELSE "general"

KeyOf(event) == <<getClientIP(event), ClassOf(event)>>

\* the requests per window the documentation allows
Allowed(class) == IF class = "api" THEN 15 ELSE 60

\* the step is the hook serving event: the entry of its key has been counted up
\* or begun anew
Serves(event) ==
    /\ rateLimitStore'[KeyOf(event)] # rateLimitStore[KeyOf(event)]
    /\ rateLimitStore'[KeyOf(event)].count >= 1

\* C23: a request is rejected with 429 exactly when it is beyond the 60th
\* general or the 15th API request of its client in the window, and it counts
\* under the key of its own client and class only
C23_RateLimits ==
    [][(call'.name = "handle" /\ Serves(call'.args[1])) =>
          LET event == call'.args[1]
          IN  /\ result'.status = 429 <=>
                     rateLimitStore'[KeyOf(event)].count > Allowed(ClassOf(event))
              /\ \A key \in RateKeys \ {KeyOf(event)} :
                     rateLimitStore'[key] = rateLimitStore[key]]_vars

\* C24: every response of the hook carries the six security headers and the
\* two rate-limit headers
C24_HeadersOnEveryResponse ==
    Returned("handle") =>
        /\ {"X-Frame-Options", "X-Content-Type-Options", "X-XSS-Protection",
            "Referrer-Policy", "Permissions-Policy", "Content-Security-Policy"}
               \subseteq result.headers
        /\ {"X-RateLimit-Remaining", "X-RateLimit-Reset"} \subseteq result.headers
\* ------------------------------------------------------------------ countdown
Countdowns(ts) == SelectSeq(ts, LAMBDA t : t.kind = "countdown")

\* the pending advances are one advance, for the token at index i, with the
\* whole delay of that token at wpm w
ArmedFor(ts, toks, i, w) ==
    /\ Advances(ts) = 1
    /\ \A k \in 1..Len(ts) :
           ts[k].kind = "advance" => DelayEq(ts[k].delay, getWordDelay(At(toks, i), w))

\* C25: Countdown is entered showing 3, each tick of 500 ms shows one less,
\* and the tick at 1 enters Playing with one advance armed for the token at
\* the index; meanwhile the index, the tokens and the wpm rest and no advance
\* is pending
C25_CountdownThreeTicks ==
    /\ [](appState = "countdown" =>
             /\ countdownValue \in {1, 2, 3}
             /\ Advances(timers) = 0
             /\ Len(Countdowns(timers)) = 1
             /\ Countdowns(timers)[1].arg = countdownValue
             /\ DelayEq(Countdowns(timers)[1].delay, Ms(500)))
    /\ [][/\ (appState # "countdown" /\ appState' = "countdown") => countdownValue' = 3
          /\ (appState = "countdown" /\ appState' = "countdown") =>
                 /\ countdownValue' \in {countdownValue, countdownValue - 1}
                 /\ <<wordIndex, tokens, wpm>>' = <<wordIndex, tokens, wpm>>
          /\ (appState = "countdown" /\ appState' # "countdown") =>
                 /\ countdownValue = 1
                 /\ appState' = "playing"
                 /\ <<wordIndex, tokens, wpm>>' = <<wordIndex, tokens, wpm>>
                 /\ ArmedFor(timers', tokens, wordIndex, wpm)]_vars
\* ------------------------------------------------------------------ back and the error
\* the back button or Escape, with a session on the page
Back == Live /\ (ClickBack \/ PressKey("Escape", FALSE))

\* C26: after a back or escape action taken with a session on the page, the
\* page is in Input and shows no error message
C26_BackClearsError ==
    [][(Back /\ appState' = "input") => errorMessage' = ""]_vars
\* ------------------------------------------------------------------ wpm steps
\* C27: after ArrowUp or ArrowDown on the reading screen, wpm is a multiple
\* of 25
C27_WpmMultipleOfStep ==
    [][(\E key \in {"ArrowUp", "ArrowDown"} : TurnWpm(key)) => wpm' % 25 = 0]_vars
\* ------------------------------------------------------------------ wpm change
\* a wpm-change action on the reading screen: ArrowUp, ArrowDown or the slider
WpmChange ==
    /\ appState \in Reading
    /\ \/ PressKey("ArrowUp", FALSE)
       \/ PressKey("ArrowDown", FALSE)
       \/ \E value \in SliderValues : Slide(value)

AdvanceTimers(ts) == SelectSeq(ts, LAMBDA t : t.kind = "advance")

\* C28: a wpm change in Playing leaves exactly one advance pending, armed anew
\* for the current token with its full delay at the new wpm; a wpm change in
\* Paused or Finished arms no timer
C28_WpmChangeReschedules ==
    [][WpmChange =>
          /\ appState = "playing" =>
                 /\ ArmedFor(timers', tokens, wordIndex, wpm')
                 /\ AdvanceTimers(timers')[1].held
          /\ appState \in {"paused", "finished"} =>
                 AdvanceTimers(timers') = AdvanceTimers(timers)]_vars

\* C29: a wpm-change action leaves the playback state, the index and the
\* tokens as they were
C29_WpmChangeKeepsState ==
    [][WpmChange => <<appState, wordIndex, tokens>>' = <<appState, wordIndex, tokens>>]_vars
\* ------------------------------------------------------------------ restart
\* the restart button, in Finished or Playing, with a session of n >= 1 tokens
Restart ==
    /\ appState \in {"finished", "playing"}
    /\ Len(tokens) >= 1
    /\ ClickRestart

\* C30: a restart in Finished or Playing sets the index to 0, requests a save
\* of it, and leaves the page Playing with exactly one advance armed, for
\* token 0 with its full delay
C30_RestartPlaysFromStart ==
    [][Restart =>
          /\ wordIndex' = 0
          /\ SaveRequested'
          /\ appState' = "playing"
          /\ ArmedFor(timers', tokens, 0, wpm)
          /\ tokens' = tokens]_vars
\* ------------------------------------------------------------------ play and resume
\* the play button or Space
Toggle == ClickPlay \/ PressKey(" ", FALSE)

\* the index is one of the session's tokens
InRange == 0 <= wordIndex /\ wordIndex < Len(tokens)

\* C31: play in Paused or Finished, on a session whose index is in range, leads
\* to Playing with one advance armed for the current token; the index becomes 0
\* if it was at the last token and is unchanged otherwise; a pause leaves the
\* index as it was
C31_PlayResumes ==
    [][/\ (appState \in {"paused", "finished"} /\ InRange /\ Toggle) =>
             /\ appState' = "playing"
             /\ wordIndex' = IF wordIndex = Len(tokens) - 1 THEN 0 ELSE wordIndex
             /\ tokens' = tokens
             /\ ArmedFor(timers', tokens, wordIndex', wpm)
       /\ (appState = "playing" /\ Toggle) =>
             /\ appState' = "paused"
             /\ wordIndex' = wordIndex]_vars

\* a key of the control surface is pressed
AnyKey == \E key \in Keys, shiftKey \in BOOLEAN : PressKey(key, shiftKey)

\* C32: in Input, Loading and Countdown a press of Space, an arrow key or
\* Escape leaves the playback state, the index, the wpm, the tokens, the timers
\* (so no save is requested) and the rest of the page as they were
C32_KeysInactive ==
    [][(appState \in {"input", "loading", "countdown"} /\ AnyKey) =>
           UNCHANGED page]_vars

\* Escape was pressed during the countdown, which still runs
C32_Witness ==
    /\ appState = "countdown"
    /\ since = "back"
    /\ Count(timers, "countdown") = 1

\* an arrow key moves the index by one or by ten
AnySeek == \E n \in {0 - 10, 0 - 1, 1, 10} : Seek(n)

\* C33: a seek leaves the playback state, the wpm and the tokens as they were,
\* and in Paused or Finished the advance timers as they were: none is armed
C33_SeekKeepsState ==
    [][AnySeek =>
           /\ appState' = appState
           /\ wpm' = wpm
           /\ tokens' = tokens
           /\ appState \in {"paused", "finished"} =>
                  AdvanceTimers(timers') = AdvanceTimers(timers)]_vars

\* Finished before the last token, where only a seek back leads, at rest
C33_Witness ==
    /\ appState = "finished"
    /\ Len(tokens) >= 2
    /\ wordIndex < Len(tokens) - 1
    /\ Advances(timers) = 0

\* C34: while Playing at an index in range, every pending advance carries the
\* delay of the token that is current at the current wpm
C34_AdvanceForCurrentToken ==
    (appState = "playing" /\ InRange) =>
        \A k \in 1..Len(timers) :
            timers[k].kind = "advance" =>
                DelayEq(timers[k].delay, getWordDelay(At(tokens, wordIndex), wpm))

\* the step is an action of the user
UserActs == acted' = acted + 1

\* C35: in Loading no action of the user changes the state or the session, and
\* none starts another request: only the outcome of the acquisition does
C35_LoadingIgnoresUser ==
    [][(appState = "loading" /\ UserActs) =>
           /\ appState' = "loading"
           /\ UNCHANGED <<sourceText, tokens, wordIndex, wpm, inflight>>]_vars

\* C36: in Countdown, Playing, Paused and Finished the token sequence of the
\* session is non-empty
C36_LiveSessionHasTokens == Live => Len(tokens) >= 1

\* the record loaded at initialization when the resume button is offered: the
\* one stored session a page starts over
LoadedAtStart == loadState(CHOOSE stored \in InitialStorage : stored # NoItem)

\* C37: accepting the stored session re-creates the session of the record that
\* was loaded at initialization
C37_ResumesRecordLoadedAtStart ==
    [][ClickResume =>
           /\ sourceText' = LoadedAtStart.sourceText
           /\ tokens' = tokenize(LoadedAtStart.sourceText)
           /\ wordIndex' = LoadedAtStart.wordIndex]_vars

\* the wpm a stored record persists: its wpm when that is a positive number,
\* else the default
PersistedWpm(stored) ==
    IF stored.kind = "object" /\ stored.wpm.t = "number" /\ stored.wpm.v > 0
    THEN stored.wpm.v
    ELSE DEFAULT_STATE.wpm

\* nothing has been done since the page was opened
JustOpened == acted = 0 /\ appState = "input" /\ timers = <<>>

\* C38: right after initialization the wpm is the persisted wpm when that is a
\* positive number, and the default 450 otherwise
C38_InitialWpmIsPersisted == JustOpened => wpm = PersistedWpm(storage)

\* the acquisitions awaiting their response and the countdowns running
InProgress == inflight.extract + inflight.summarize + Count(timers, "countdown")

\* C39: at most one acquisition or countdown is in progress at a time, and a
\* countdown runs only while the page is in Countdown, so none completes into
\* Playing from another state
C39_OneAcquisitionAtATime ==
    /\ InProgress <= 1
    /\ Count(timers, "countdown") >= 1 => appState = "countdown"

\* C40: whenever the page is in Playing an advance timer is pending, so the
\* playback can go on to Finished
C40_PlayingHasAdvance == appState = "playing" => Advances(timers) >= 1

====
